---- MODULE Spec2Model ----
(***************************************************************************)
(* Tunnel lifecycle of the erebrus DVPN client (src/src/index.js):         *)
(* connectDvpn, createClient, createWireGuardConfig, connectToWireGuard,   *)
(* cleanupWireGuard and disconnectVPN, run by callers of one Node.js       *)
(* process against one host (one named interface, one config path).        *)
(*                                                                         *)
(* A step of the model is one callback or one await continuation of the    *)
(* JavaScript code, run to completion, or the run of one subprocess that   *)
(* exec() started.  A subprocess acts on the host when it runs; its        *)
(* callback is delivered later, and other subprocesses may run in between. *)
(***************************************************************************)
EXTENDS Integers, Sequences, FiniteSets, TLC

\* Callers of the exported functions that may be in flight at the same time.
NumTasks == 2
\* Invocations of connectDvpn and disconnectVPN started in one run.
MaxCalls == 2
\* Invocations of connectDvpn among them.
MaxConnects == 1
\* Times another process of the host opens the config path for writing.
MaxOtherWrites == 1

Tasks == 1..NumTasks

\* No value (JavaScript null).  A one-element sequence that is no string of
\* characters, so that it compares with strings and equals none.
Null == <<"null">>
\* A property the server response does not carry (JavaScript undefined).
Absent == <<"undefined">>

(***************************************************************************)
(* Text.  A string is a sequence of one-character strings.                 *)
(***************************************************************************)
NL == "\n"
SP == " "

\* The characters the regex class \s matches among those the model uses.
IsSpace(c) == c \in {SP, NL}

\* src/src/index.js:240-241 text before ${privateKey}
TplHead ==
    <<"[", "I", "n", "t", "e", "r", "f", "a", "c", "e", "]", NL, "P", "r", "i", "v", "a",
      "t", "e", "K", "e", "y", SP, "=", SP>>

\* src/src/index.js:241-242 text before ${client.Address[0]}
TplAddress ==
    <<NL, "A", "d", "d", "r", "e", "s", "s", SP, "=", SP>>

\* src/src/index.js:242-248 text before ${serverPublicKey}
TplPeer ==
    <<NL, "D", "N", "S", SP, "=", SP, "1", ".", "1", ".", "1", ".", "1", ",", SP, "8",
      ".", "8", ".", "8", ".", "8", NL, "P", "o", "s", "t", "U", "p", SP, "=", SP, "e",
      "c", "h", "o", SP, "'", "n", "a", "m", "e", "s", "e", "r", "v", "e", "r", SP, "1",
      ".", "1", ".", "1", ".", "1", "'", SP, "|", SP, "r", "e", "s", "o", "l", "v", "c",
      "o", "n", "f", SP, "-", "a", SP, "%", "i", SP, "-", "m", SP, "0", SP, "|", "|", SP,
      "t", "r", "u", "e", NL, "P", "o", "s", "t", "D", "o", "w", "n", SP, "=", SP, "r",
      "e", "s", "o", "l", "v", "c", "o", "n", "f", SP, "-", "d", SP, "%", "i", SP, "|",
      "|", SP, "t", "r", "u", "e", NL, NL, "[", "P", "e", "e", "r", "]", NL, "P", "u",
      "b", "l", "i", "c", "K", "e", "y", SP, "=", SP>>

\* src/src/index.js:248-249 text before ${client.PresharedKey}
TplPreshared ==
    <<NL, "P", "r", "e", "s", "h", "a", "r", "e", "d", "K", "e", "y", SP, "=", SP>>

\* src/src/index.js:249-251 text before ${endpoint}
TplEndpoint ==
    <<NL, "A", "l", "l", "o", "w", "e", "d", "I", "P", "s", SP, "=", SP, "0", ".", "0",
      ".", "0", ".", "0", "/", "0", ",", SP, ":", ":", "/", "0", NL, "E", "n", "d", "p",
      "o", "i", "n", "t", SP, "=", SP>>

\* src/src/index.js:251-253 text after ${endpoint}
TplTail ==
    <<":", "5", "1", "8", "2", "0", NL, "P", "e", "r", "s", "i", "s", "t", "e", "n", "t",
      "K", "e", "e", "p", "a", "l", "i", "v", "e", SP, "=", SP, "2", "5", NL>>

\* literal of the regex at src/src/index.js:506
KeyPrivateKey ==
    <<"P", "r", "i", "v", "a", "t", "e", "K", "e", "y">>

\* literal of the regex at src/src/index.js:507
KeyAddress ==
    <<"A", "d", "d", "r", "e", "s", "s">>

\* literal of the regex at src/src/index.js:508
KeyPublicKey ==
    <<"P", "u", "b", "l", "i", "c", "K", "e", "y">>

\* literal of the regex at src/src/index.js:509
KeyPresharedKey ==
    <<"P", "r", "e", "s", "h", "a", "r", "e", "d", "K", "e", "y">>

\* literal of the regex at src/src/index.js:510
KeyEndpoint ==
    <<"E", "n", "d", "p", "o", "i", "n", "t">>

\* what a template literal prints for an undefined value
StrUndefined ==
    <<"u", "n", "d", "e", "f", "i", "n", "e", "d">>

\* Template interpolation ${v}: an undefined value prints as "undefined".
Str(v) == IF v = Absent THEN StrUndefined ELSE v

\* The configuration text of createWireGuardConfig for the given values.
ConfigContent(privateKey, address, serverPublicKey, presharedKey, endpoint) ==
    TplHead \o Str(privateKey) \o TplAddress \o Str(address) \o TplPeer
      \o Str(serverPublicKey) \o TplPreshared \o Str(presharedKey) \o TplEndpoint
      \o Str(endpoint) \o TplTail

\* key occurs in text at position i.
OccursAt(text, key, i) ==
    /\ i + Len(key) - 1 <= Len(text)
    /\ \A k \in 1..Len(key) : text[i + k - 1] = key[k]

\* \s* from position j: the first position at or after j that holds no space.
SkipSpace(text, j) ==
    CHOOSE k \in j..(Len(text) + 1) :
        /\ \A m \in j..(k - 1) : IsSpace(text[m])
        /\ (k = Len(text) + 1 \/ ~IsSpace(text[k]))

\* [^\s]+ from position j: the position after the run of non-space characters.
SkipWord(text, j) ==
    CHOOSE k \in j..(Len(text) + 1) :
        /\ \A m \in j..(k - 1) : ~IsSpace(text[m])
        /\ (k = Len(text) + 1 \/ IsSpace(text[k]))

\* The regex /key\s*=\s*([^\s]+)/ anchored at position i: the capture group,
\* or Null when the pattern does not match there.
MatchAt(text, key, i) ==
    IF ~OccursAt(text, key, i) THEN Null
    ELSE LET e == SkipSpace(text, i + Len(key))
         IN  IF e > Len(text) \/ text[e] # "=" THEN Null
             ELSE LET v == SkipSpace(text, e + 1)
                      w == SkipWord(text, v)
                  IN  IF w = v THEN Null ELSE SubSeq(text, v, w - 1)

\* data.match(/key\s*=\s*([^\s]+)/): the capture of the leftmost match, or Null.
Match(text, key) ==
    LET starts == {i \in 1..Len(text) : MatchAt(text, key, i) # Null}
    IN  IF starts = {} THEN Null
        ELSE MatchAt(text, key, CHOOSE i \in starts : \A k \in starts : i <= k)

\* The five fields the manual path extracts from the config text.
ParseConfig(data) ==
    [privateKey   |-> Match(data, KeyPrivateKey),
     address      |-> Match(data, KeyAddress),
     publicKey    |-> Match(data, KeyPublicKey),
     presharedKey |-> Match(data, KeyPresharedKey),
     endpoint     |-> Match(data, KeyEndpoint)]

\* data.match(...)[1] throws a TypeError when a match is null.
ParseThrows(data) ==
    \E f \in DOMAIN ParseConfig(data) : ParseConfig(data)[f] = Null

(***************************************************************************)
(* Data of the external collaborators.                                     *)
(***************************************************************************)
\* Node ids a caller passes to connectDvpn.
NodeIds == {"A"}

\* Payloads of the node directory (data.payload of getAllNodes).
Directories ==
    { {},
      {[id |-> "A", status |-> "active"]},
      {[id |-> "A", status |-> "inactive"]},
      {[id |-> "B", status |-> "active"]},
      {[id |-> "A", status |-> "inactive"], [id |-> "B", status |-> "active"]} }

\* Key material the wg tool writes, trimmed.  'wg genkey' and 'wg genpsk' draw a
\* new random key at every run: the key of the run of invocation number id
\* carries that number.  'wg pubkey' derives the public key of a private key.
Digits == <<"1", "2", "3", "4", "5", "6">>
GenPrivateKey(id) == <<"a", Digits[id], "=">>
GenPublicKey(privateKey) == <<"b", privateKey[2], "=">>
GenPresharedKey(id) == <<"c", Digits[id], "=">>

\* A private key 'wg pubkey' accepts.
IsPrivateKey(k) == k # Null /\ Len(k) = 3 /\ k[1] = "a"

\* payload of a provisioning response: client.Address[0], client.PresharedKey,
\* serverPublicKey and endpoint (a host).
WellFormedPayload ==
    [Address         |-> <<"1", "0", ".", "0", ".", "0", ".", "2", "/", "3", "2">>,
     PresharedKey    |-> <<"s", "K", "=">>,
     serverPublicKey |-> <<"S", "K", "=">>,
     endpoint        |-> <<"v", "p", "n", ".", "e", "x">>]

\* A client address that lists an IPv4 and an IPv6 network, as the Address
\* line of a WireGuard configuration may: "10.0.0.2/32, fd::2/128".
DualStackAddress ==
    <<"1", "0", ".", "0", ".", "0", ".", "2", "/", "3", "2", ",", SP,
      "f", "d", ":", ":", "2", "/", "1", "2", "8">>

Payloads ==
    { WellFormedPayload,
      [WellFormedPayload EXCEPT !.PresharedKey = <<>>],
      [WellFormedPayload EXCEPT !.endpoint = Absent],
      [WellFormedPayload EXCEPT !.Address = Absent],
      [WellFormedPayload EXCEPT !.Address = DualStackAddress] }

\* What response.text() of the provisioning request yields: nothing, text that
\* is no JSON, JSON without a payload, or JSON with one of the payloads.
Responses ==
    {[kind |-> k, payload |-> WellFormedPayload] : k \in {"empty", "badjson", "nopayload"}}
      \cup {[kind |-> "json", payload |-> p] : p \in Payloads}

\* createClient returned null.
NoClient == [hasPayload |-> FALSE, payload |-> WellFormedPayload,
             privateKey |-> <<>>, presharedKey |-> <<>>, isNull |-> TRUE]

\* Nothing parsed yet.
NoFields == [privateKey |-> Null, address |-> Null, publicKey |-> Null,
             presharedKey |-> Null, endpoint |-> Null]

(***************************************************************************)
(* File permissions: a mode is the set of its permission bits.             *)
(***************************************************************************)
\* 0o600, the mode option of writeFile.
Mode600 == {"ur", "uw"}
\* A file another writer left at the config path: 0o666.
ForeignMode == {"ur", "uw", "gr", "gw", "or", "ow"}
\* The umask of the process when writeFile creates the file: 0o000, 0o022, 0o077.
Umasks == {{}, {"gw", "ow"}, {"gr", "gw", "gx", "or", "ow", "ox"}}

(***************************************************************************)
(* State.                                                                  *)
(***************************************************************************)
VARIABLES
    task,     \* per caller: the invocation in flight, its locals and its result
    calls,    \* invocations started so far
    connects, \* invocations of connectDvpn among them
    otherWrites, \* times another process opened the config path for writing
    iface,    \* the interface erebrus-dvpn on the host
    conf,     \* the file /tmp/erebrus-dvpn.conf
    keyDirs,  \* the directories /tmp/wg-keys-<ms>, by the invocation that named one
    pskFiles, \* the files /tmp/wg-psk-<ms>, likewise
    crashed   \* an exception escaped a callback: the process is gone

vars == <<task, calls, connects, otherWrites, iface, conf, keyDirs, pskFiles, crashed>>

\* Interface states: no device ("Down"); a device without a default route through
\* it ("Partial"); a device with the default route through it ("Up").  owner is
\* the number of the invocation that created the device (0: it was there before).
DownIface == [state |-> "Down", owner |-> 0]

\* The config file: its mode and what was written to it last.  written is FALSE
\* while the file is empty (created or truncated by open, nothing written yet);
\* otherwise its text is the configContent built from data.
NoFile == [exists |-> FALSE, mode |-> {}, written |-> FALSE, data |-> NoClient]

\* A key directory: whether it exists, and the text of private.key and of
\* public.key in it (Null: no such file; <<>>: an empty file).
NoDir == [exists |-> FALSE, private |-> Null, public |-> Null]

\* No key pair yet.
NoKeyPair == [privateKey |-> Null, publicKey |-> Null]

\* Names a temporary path can get: one per invocation.
Names == 1..MaxCalls

IdleTask ==
    [pc         |-> "idle",
     id         |-> 0,           \* number of the invocation (0: none yet)
     op         |-> "none",      \* "connect" or "disconnect"
     nodeId     |-> "none",
     ret        |-> "none",      \* what the promise resolved to: "true" / "false"
     ran        |-> FALSE,       \* the subprocess of the pending exec has run
     hung       |-> FALSE,       \* the subprocess of the pending exec never exits
     err        |-> FALSE,       \* the error argument of the pending callback
     directory  |-> {},          \* data.payload the directory returned
     tempDir    |-> 0,           \* name of the key directory (0: none yet)
     keyPair    |-> NoKeyPair,   \* private and public key read back
     tempFile   |-> 0,           \* name of the preshared-key file (0: none yet)
     presharedKey |-> Null,      \* preshared key read back
     client     |-> NoClient,    \* result of createClient
     parsed     |-> NoFields,    \* fields parsed on the manual path
     index      |-> 0,           \* index of execCommands
     log        |-> <<>>,        \* operations started by this invocation, in order
     errs       |-> {},          \* the operations among them that failed
     tempConf   |-> "none",      \* the temporary wg config: none/present/unlinking
     overlapped |-> FALSE,       \* another invocation was in flight meanwhile
     retIface   |-> DownIface]   \* the interface when the invocation returned

Init ==
    /\ task = [t \in Tasks |-> IdleTask]
    /\ calls = 0
    /\ connects = 0
    /\ otherWrites = 0
    /\ iface \in {[state |-> s, owner |-> 0] : s \in {"Down", "Partial", "Up"}}
    /\ conf \in {NoFile, [NoFile EXCEPT !.exists = TRUE, !.mode = ForeignMode]}
    /\ keyDirs = [n \in Names |-> NoDir]
    /\ pskFiles = [n \in Names |-> Null]
    /\ crashed = FALSE

(***************************************************************************)
(* Subprocesses.                                                           *)
(***************************************************************************)
\* The array with 'wg setconf' and 'ip addr add' in each other's place.
ManualCommandsReordered == <<"linkadd", "addradd", "setconf", "linkup", "routeadd">>

\* The five commands of the manual path, in the order of the array.
ManualCommands == <<"linkadd", "setconf", "addradd", "linkup", "routeadd">>

\* Positions at which an exec() is pending, and the command each runs.
ExecPcs ==
    {"which", "kp_genkey", "kp_pubkey", "psk_gen", "cln_down", "cln_del", "up",
     "dns", "ping", "cmd", "rb_del", "disc_down", "disc_del"}

Command(s) ==
    CASE s.pc = "which" -> "which"
      [] s.pc = "kp_genkey" -> "genkey"
      [] s.pc = "kp_pubkey" -> "pubkey"
      [] s.pc = "psk_gen" -> "genpsk"
      [] s.pc \in {"cln_down", "disc_down"} -> "down"
      [] s.pc \in {"cln_del", "rb_del", "disc_del"} -> "delete"
      [] s.pc = "up" -> "up"
      [] s.pc = "dns" -> "dns"
      [] s.pc = "ping" -> "ping"
      [] s.pc = "cmd" -> ManualCommands[s.index + 1]

Ok(i) == [err |-> FALSE, iface |-> i]
Fail(i) == [err |-> TRUE, iface |-> i]

\* What running command c for task t can do to the host and report.  A command
\* that acts on the device fails when the device is not in the state it needs;
\* 'ip link delete' fails only then (the interface might not exist); the others
\* may also fail for reasons of the host.
Outcomes(c, t) ==
    CASE c \in {"which", "genpsk", "dns", "ping"} ->
           {Ok(iface), Fail(iface)}
      [] c = "genkey" ->
           IF ~keyDirs[task[t].tempDir].exists THEN {Fail(iface)}
           ELSE {Ok(iface), Fail(iface)}
      [] c = "pubkey" ->
           IF ~IsPrivateKey(keyDirs[task[t].tempDir].private) THEN {Fail(iface)}
           ELSE {Ok(iface), Fail(iface)}
      [] c = "down" ->
           IF iface.state = "Down" THEN {Fail(iface)} ELSE {Ok(DownIface), Fail(iface)}
      [] c = "delete" ->
           IF iface.state = "Down" THEN {Fail(iface)} ELSE {Ok(DownIface)}
      [] c = "up" ->
           IF iface.state # "Down" \/ ~conf.exists THEN {Fail(iface)}
           ELSE {Ok([state |-> "Up", owner |-> task[t].id]), Fail(iface)}
      [] c = "linkadd" ->
           IF iface.state # "Down" THEN {Fail(iface)}
           ELSE {Ok([state |-> "Partial", owner |-> task[t].id]), Fail(iface)}
      [] c \in {"setconf", "addradd", "linkup"} ->
           IF iface.state = "Down" THEN {Fail(iface)} ELSE {Ok(iface), Fail(iface)}
      [] c = "routeadd" ->
           IF iface.state = "Down" THEN {Fail(iface)}
           ELSE {Ok([iface EXCEPT !.state = "Up"]), Fail(iface)}

\* The key directories after command c of the invocation s has run: the shell
\* opens the file behind '>' (truncating it) when the directory is there, and
\* the tool writes its key into it unless it fails.
KeyDirsAfter(c, s, err) ==
    IF c \in {"genkey", "pubkey"} /\ keyDirs[s.tempDir].exists
    THEN IF c = "genkey"
         THEN [keyDirs EXCEPT ![s.tempDir].private =
                 IF err THEN <<>> ELSE GenPrivateKey(s.id)]
         ELSE [keyDirs EXCEPT ![s.tempDir].public =
                 IF err THEN <<>> ELSE GenPublicKey(keyDirs[s.tempDir].private)]
    ELSE keyDirs

\* The preshared-key files after command c of the invocation s has run.
PskFilesAfter(c, s, err) ==
    IF c = "genpsk"
    THEN [pskFiles EXCEPT ![s.tempFile] = IF err THEN <<>> ELSE GenPresharedKey(s.id)]
    ELSE pskFiles

\* The subprocess of the exec() pending for task t never exits: exec() is
\* called without a timeout, so its callback is never delivered.
SubprocessHangs(t) ==
    /\ task[t].pc \in ExecPcs
    /\ ~task[t].ran /\ ~task[t].hung
    /\ task' = [task EXCEPT ![t] = [@ EXCEPT !.hung = TRUE]]
    /\ UNCHANGED <<calls, connects, otherWrites, iface, conf, keyDirs, pskFiles, crashed>>

\* The subprocess of the exec() pending for task t runs.
Subprocess(t) ==
    /\ task[t].pc \in ExecPcs
    /\ ~task[t].ran /\ ~task[t].hung
    /\ \E o \in Outcomes(Command(task[t]), t) :
         /\ iface' = o.iface
         /\ keyDirs' = KeyDirsAfter(Command(task[t]), task[t], o.err)
         /\ pskFiles' = PskFilesAfter(Command(task[t]), task[t], o.err)
         /\ task' = [task EXCEPT ![t] =
                       [@ EXCEPT !.ran = TRUE, !.err = o.err,
                                 !.errs = IF o.err THEN @ \cup {Command(task[t])} ELSE @]]
    /\ UNCHANGED <<calls, connects, otherWrites, conf, crashed>>

(***************************************************************************)
(* Helpers of the handlers.                                                *)
(***************************************************************************)
\* The handler of task t may run: the process lives and t is at position p.
At(t, p) == ~crashed /\ task[t].pc = p
\* The callback of the exec() pending at p is delivered.
Called(t, p) == At(t, p) /\ task[t].ran

\* s after exec(c) was called at position p.
Exec(s, p, c) ==
    [s EXCEPT !.pc = p, !.ran = FALSE, !.err = FALSE, !.log = Append(@, c)]
\* s after an await on file or network I/O named c was started at position p.
Await(s, p, c) == [s EXCEPT !.pc = p, !.log = Append(@, c)]
\* s after the exported function returned v to its caller.
Return(s, v) == [s EXCEPT !.pc = "idle", !.ret = v, !.retIface = iface]
\* s after the I/O it awaits (the last operation it started) failed.
Failed(s) == [s EXCEPT !.errs = @ \cup {s.log[Len(s.log)]}]

Set(t, s) == task' = [task EXCEPT ![t] = s]

(***************************************************************************)
(* connectDvpn, steps 1 to 3: tool check, directory, nodeId validation.    *)
(***************************************************************************)
OthersInFlight(t) == \E u \in Tasks \ {t} : task[u].pc # "idle"

\* A caller starts an exported function: its first exec() is pending at p.
Start(t, o, n, p, c) ==
    /\ At(t, "idle")
    /\ calls < MaxCalls
    /\ calls' = calls + 1
    /\ task' = [u \in Tasks |->
                  IF u = t
                  THEN Exec([IdleTask EXCEPT !.op = o, !.nodeId = n, !.id = calls + 1,
                                             !.overlapped = OthersInFlight(t)], p, c)
                  ELSE IF task[u].pc # "idle"
                       THEN [task[u] EXCEPT !.overlapped = TRUE]
                       ELSE IdleTask]
    /\ UNCHANGED <<otherWrites, iface, conf, keyDirs, pskFiles, crashed>>

\* connectDvpn(token, nodeId) is called: checkWireGuard runs 'which wg'.
CallConnect(t) ==
    /\ connects < MaxConnects
    /\ connects' = connects + 1
    /\ \E n \in NodeIds : Start(t, "connect", n, "which", "which")

\* Callback of 'which wg'; on success connectDvpn goes on to getAllNodes.
WhichDone(t) ==
    /\ Called(t, "which")
    /\ Set(t, IF task[t].err THEN Return(task[t], "false")
              ELSE Await(task[t], "nodes", "getAllNodes"))
    /\ UNCHANGED <<calls, connects, otherWrites, iface, conf, keyDirs, pskFiles, crashed>>

\* getAllNodes without its filter: every node of the directory is returned.
ActiveNodesUnfiltered(payload) == payload

\* getAllNodes: data.payload.filter(node => node.status === 'active').
ActiveNodes(payload) == {n \in payload : n.status = "active"}

\* The invocations other than t that are at position p and read the clock when
\* they got there, in the millisecond in which t reads it: Date.now() counts
\* milliseconds, and the operation pending at p has not completed yet.
SameMillisecond(t, p) ==
    {u \in Tasks \ {t} : task[u].pc = p /\ ~(p \in ExecPcs /\ task[u].ran)}

\* The names `/tmp/wg-keys-${Date.now()}` can have for invocation number id.
KeyDirNames(t, id) ==
    {id} \cup {task[u].tempDir : u \in SameMillisecond(t, "kp_mkdir")}

\* The names `/tmp/wg-psk-${Date.now()}` can have for invocation number id.
PskFileNames(t, id) ==
    {id} \cup {task[u].tempFile : u \in SameMillisecond(t, "psk_gen")}

\* nodes.find(n => n.id === nodeId) finds a node.
Selected(nodes, id) == \E n \in nodes : n.id = id

\* The directory answers (or the request fails and getAllNodes returns []);
\* connectDvpn validates nodeId and calls createClient, which starts
\* generateWireGuardKeyPair with mkdir.
NodesDone(t) ==
    /\ At(t, "nodes")
    /\ \E d \in Directories, failed \in BOOLEAN, dir \in KeyDirNames(t, task[t].id) :
         LET nodes == IF failed THEN {} ELSE ActiveNodes(d)
             s == IF failed THEN Failed(task[t]) ELSE [task[t] EXCEPT !.directory = d]
         IN  Set(t, IF nodes = {} THEN Return(s, "false")
                    ELSE IF ~Selected(nodes, s.nodeId) THEN Return(s, "false")
                    ELSE Await([s EXCEPT !.log = Append(@, "createClient"),
                                         !.tempDir = dir],
                               "kp_mkdir", "mkdir"))
    /\ UNCHANGED <<calls, connects, otherWrites, iface, conf, keyDirs, pskFiles, crashed>>

(***************************************************************************)
(* createClient: key pair, preshared key, provisioning request.            *)
(***************************************************************************)
\* What the exported function of s returns when it fails: createClient returns
\* null, and connectDvpn, which gets that null, returns false.
FailureOf(s) == IF s.op = "createClient" THEN "null" ELSE "false"

\* An await of I/O at position p completes: on failure the enclosing function
\* returns null and connectDvpn returns false, otherwise the task goes on as s.
IoDone(t, p, s) ==
    /\ At(t, p)
    /\ \E failed \in BOOLEAN :
         Set(t, IF failed THEN Return(Failed(task[t]), FailureOf(task[t])) ELSE s)
    /\ UNCHANGED <<calls, connects, otherWrites, iface, conf, keyDirs, pskFiles, crashed>>

\* The callback of an exec() that drops the error argument and goes on.
ExecDoneIgnoringError(t, p, s) ==
    /\ Called(t, p)
    /\ Set(t, s)
    /\ UNCHANGED <<calls, connects, otherWrites, iface, conf, keyDirs, pskFiles, crashed>>

\* The callback of the exec() pending at p: an error rejects, the catch returns
\* null and connectDvpn returns false; otherwise the task goes on as s.
ExecDone(t, p, s) ==
    /\ Called(t, p)
    /\ Set(t, IF task[t].err THEN Return(task[t], FailureOf(task[t])) ELSE s)
    /\ UNCHANGED <<calls, connects, otherWrites, iface, conf, keyDirs, pskFiles, crashed>>

\* createClient(token, nodeId) is called by a user of the SDK: it names the key
\* directory and starts mkdir.
CallCreateClient(t) ==
    /\ At(t, "idle")
    /\ calls < MaxCalls
    /\ calls' = calls + 1
    /\ \E n \in NodeIds, dir \in KeyDirNames(t, calls + 1) :
         task' = [u \in Tasks |->
                    IF u = t
                    THEN Await([IdleTask EXCEPT !.op = "createClient", !.nodeId = n,
                                                !.id = calls + 1, !.tempDir = dir,
                                                !.overlapped = OthersInFlight(t),
                                                !.log = <<"createClient">>],
                               "kp_mkdir", "mkdir")
                    ELSE IF task[u].pc # "idle"
                         THEN [task[u] EXCEPT !.overlapped = TRUE]
                         ELSE IdleTask]
    /\ UNCHANGED <<connects, otherWrites, iface, conf, keyDirs, pskFiles, crashed>>

\* fs.promises.mkdir(tempDir, {recursive: true}): a directory that exists is
\* left as it is.  Then 'wg genkey > tempDir/private.key' is run.
KpMkdirDone(t) ==
    /\ At(t, "kp_mkdir")
    /\ \E failed \in BOOLEAN :
         IF failed
         THEN Set(t, Return(Failed(task[t]), FailureOf(task[t]))) /\ UNCHANGED keyDirs
         ELSE /\ Set(t, Exec(task[t], "kp_genkey", "genkey"))
              /\ keyDirs' = [keyDirs EXCEPT ![task[t].tempDir].exists = TRUE]
    /\ UNCHANGED <<calls, connects, otherWrites, iface, conf, pskFiles, crashed>>

KpGenkeyDone(t) == ExecDone(t, "kp_genkey", Exec(task[t], "kp_pubkey", "pubkey"))
\* A callback of 'wg pubkey' that resolves whatever the error.
KpPubkeyDoneIgnoringError(t) ==
    ExecDoneIgnoringError(t, "kp_pubkey", Await(task[t], "kp_read", "readKeys"))

\* Callback of 'wg pubkey': the two key files are read back.
KpPubkeyDone(t) == ExecDone(t, "kp_pubkey", Await(task[t], "kp_read", "readKeys"))

\* readFile of private.key resolves with what the file holds, trimmed.
KpReadDone(t) ==
    /\ At(t, "kp_read")
    /\ \E failed \in BOOLEAN :
         LET text == keyDirs[task[t].tempDir].private
         IN  /\ (text = Null => failed)
             /\ Set(t, IF failed THEN Return(Failed(task[t]), FailureOf(task[t]))
                       ELSE Await([task[t] EXCEPT !.keyPair.privateKey = text],
                                  "kp_read_pub", "readPublic"))
    /\ UNCHANGED <<calls, connects, otherWrites, iface, conf, keyDirs, pskFiles, crashed>>

\* readFile of public.key resolves likewise; rm of the directory is started.
KpReadPublicDone(t) ==
    /\ At(t, "kp_read_pub")
    /\ \E failed \in BOOLEAN :
         LET text == keyDirs[task[t].tempDir].public
         IN  /\ (text = Null => failed)
             /\ Set(t, IF failed THEN Return(Failed(task[t]), FailureOf(task[t]))
                       ELSE Await([task[t] EXCEPT !.keyPair.publicKey = text],
                                  "kp_rm", "rmKeys"))
    /\ UNCHANGED <<calls, connects, otherWrites, iface, conf, keyDirs, pskFiles, crashed>>

\* rm(tempDir, {recursive, force}) resolves and generateWireGuardKeyPair returns
\* the pair (an object, so that createClient goes on); generatePresharedKey
\* names its file and runs 'wg genpsk > tempFile'.
KpRmDone(t) ==
    /\ At(t, "kp_rm")
    /\ \E failed \in BOOLEAN, file \in PskFileNames(t, task[t].id) :
         IF failed
         THEN Set(t, Return(Failed(task[t]), FailureOf(task[t]))) /\ UNCHANGED keyDirs
         ELSE /\ Set(t, Exec([task[t] EXCEPT !.tempFile = file], "psk_gen", "genpsk"))
              /\ keyDirs' = [keyDirs EXCEPT ![task[t].tempDir] = NoDir]
    /\ UNCHANGED <<calls, connects, otherWrites, iface, conf, pskFiles, crashed>>

PskGenDone(t) == ExecDone(t, "psk_gen", Await(task[t], "psk_read", "readPsk"))

\* readFile of the preshared-key file resolves; unlink of the file is started.
PskReadDone(t) ==
    /\ At(t, "psk_read")
    /\ \E failed \in BOOLEAN :
         LET text == pskFiles[task[t].tempFile]
         IN  /\ (text = Null => failed)
             /\ Set(t, IF failed THEN Return(Failed(task[t]), FailureOf(task[t]))
                       ELSE Await([task[t] EXCEPT !.presharedKey = text],
                                  "psk_unlink", "unlinkPsk"))
    /\ UNCHANGED <<calls, connects, otherWrites, iface, conf, keyDirs, pskFiles, crashed>>

\* unlink resolves and generatePresharedKey returns the key; createClient
\* throws when the key is empty, and otherwise posts the client data.
PskUnlinkDone(t) ==
    /\ At(t, "psk_unlink")
    /\ \E failed \in BOOLEAN :
         /\ (pskFiles[task[t].tempFile] = Null => failed)
         /\ IF failed
            THEN Set(t, Return(Failed(task[t]), FailureOf(task[t]))) /\ UNCHANGED pskFiles
            ELSE /\ Set(t, IF task[t].presharedKey = <<>>
                           THEN Return(task[t], FailureOf(task[t]))
                           ELSE Await(task[t], "post", "provision"))
                 /\ pskFiles' = [pskFiles EXCEPT ![task[t].tempFile] = Null]
    /\ UNCHANGED <<calls, connects, otherWrites, iface, conf, keyDirs, crashed>>

\* fetch resolves; createClient awaits response.text().
PostDone(t) == IoDone(t, "post", Await(task[t], "post_text", "responseText"))

\* data of createClient for a response: null for empty text or text that is no
\* JSON, else the parsed object with privateKey and presharedKey attached.
ClientData(r, keyPair, presharedKey) ==
    IF r.kind \in {"empty", "badjson"} THEN NoClient
    ELSE [hasPayload   |-> r.kind = "json",
          payload      |-> r.payload,
          privateKey   |-> keyPair.privateKey,
          presharedKey |-> presharedKey,
          isNull       |-> FALSE]

\* The destructuring and client.Address[0] of createWireGuardConfig throw (and
\* it returns null) when the payload or the client address is missing.
SynthesisThrows(c) == ~c.hasPayload \/ c.payload.Address = Absent

\* configContent of createWireGuardConfig.
ConfigOf(c) ==
    ConfigContent(c.privateKey, c.payload.Address, c.payload.serverPublicKey,
                  c.payload.PresharedKey, c.payload.endpoint)

\* The text of the config file.
TextOf(c) == IF c.written THEN ConfigOf(c.data) ELSE <<>>

\* response.text() resolves; createClient returns its data to the caller, or to
\* connectDvpn, which checks the client and calls createWireGuardConfig; that
\* builds the text and starts writeFile.
PostTextDone(t) ==
    /\ At(t, "post_text")
    /\ \E r \in Responses, failed \in BOOLEAN :
         LET c == IF failed THEN NoClient
                  ELSE ClientData(r, task[t].keyPair, task[t].presharedKey)
             s == IF failed THEN Failed(task[t]) ELSE [task[t] EXCEPT !.client = c]
         IN  Set(t, IF c.isNull THEN Return(s, FailureOf(s))
                    ELSE IF s.op = "createClient" THEN Return(s, "data")
                    ELSE IF SynthesisThrows(c) THEN Return(s, "false")
                    ELSE Await(s, "conf_open", "writeConfig"))
    /\ UNCHANGED <<calls, connects, otherWrites, iface, conf, keyDirs, pskFiles, crashed>>

(***************************************************************************)
(* createWireGuardConfig: fs.promises.writeFile(configPath, text, 0o600).  *)
(***************************************************************************)
\* The mode of a file that open() creates with mode m under umask um.
CreatedMode(m, um) == m \ um

\* The file after open(path, 'w', 0o600): created with the mode, or, when it
\* exists, truncated with its mode left as it is.
OpenedForWrite(c, um) ==
    IF c.exists THEN [c EXCEPT !.written = FALSE, !.data = NoClient]
    ELSE [NoFile EXCEPT !.exists = TRUE, !.mode = CreatedMode(Mode600, um)]

\* writeFile opens the file.
ConfOpenDone(t) ==
    /\ At(t, "conf_open")
    /\ \E failed \in BOOLEAN, um \in Umasks :
         IF failed
         THEN Set(t, Return(Failed(task[t]), "false")) /\ UNCHANGED conf
         ELSE /\ Set(t, [task[t] EXCEPT !.pc = "conf_write"])
              /\ conf' = OpenedForWrite(conf, um)
    /\ UNCHANGED <<calls, connects, otherWrites, iface, keyDirs, pskFiles, crashed>>

\* writeFile writes the text and resolves; createWireGuardConfig returns the
\* path and connectToWireGuard starts cleanupWireGuard with 'wg-quick down'.
ConfWriteDone(t) ==
    /\ At(t, "conf_write")
    /\ \E failed \in BOOLEAN :
         IF failed
         THEN Set(t, Return(Failed(task[t]), "false")) /\ UNCHANGED conf
         ELSE /\ Set(t, Exec([task[t] EXCEPT !.log = Append(@, "persisted")],
                             "cln_down", "down"))
              /\ conf' = [conf EXCEPT !.written = TRUE, !.data = task[t].client]
    /\ UNCHANGED <<calls, connects, otherWrites, iface, keyDirs, pskFiles, crashed>>

(***************************************************************************)
(* cleanupWireGuard and connectToWireGuard.                                *)
(***************************************************************************)
\* A cleanup that resolves after 'wg-quick down', without the delete.
CleanupDownDoneSkippingDelete(t) ==
    /\ Called(t, "cln_down")
    /\ Set(t, Exec(task[t], "up", "up"))
    /\ UNCHANGED <<calls, connects, otherWrites, iface, conf, keyDirs, pskFiles, crashed>>

\* Callback of 'wg-quick down erebrus-dvpn': the error is ignored and
\* 'ip link delete' is run.
CleanupDownDone(t) ==
    /\ Called(t, "cln_down")
    /\ Set(t, Exec(task[t], "cln_del", "delete"))
    /\ UNCHANGED <<calls, connects, otherWrites, iface, conf, keyDirs, pskFiles, crashed>>

\* Callback of the delete of cleanupWireGuard: the error is ignored, the cleanup
\* resolves and connectToWireGuard runs 'wg-quick up <configPath>'.
CleanupDeleteDone(t) ==
    /\ Called(t, "cln_del")
    /\ Set(t, Exec(task[t], "up", "up"))
    /\ UNCHANGED <<calls, connects, otherWrites, iface, conf, keyDirs, pskFiles, crashed>>

\* A callback of 'wg-quick up' that takes the success branch whatever the error.
AfterUpIgnoringError(s) == Exec(s, "dns", "dns")

\* What the callback of 'wg-quick up' does: on error the manual path starts by
\* reading the config file, otherwise the DNS fix is run.
AfterUp(s) ==
    IF s.err THEN Await(s, "fb_read", "readConfig") ELSE Exec(s, "dns", "dns")

\* Callback of 'wg-quick up'.
UpDone(t) ==
    /\ Called(t, "up")
    /\ Set(t, AfterUp(task[t]))
    /\ UNCHANGED <<calls, connects, otherWrites, iface, conf, keyDirs, pskFiles, crashed>>

\* Callback of the DNS fix: its error is logged; setTimeout(2000) is armed.
DnsDone(t) ==
    /\ Called(t, "dns")
    /\ Set(t, [task[t] EXCEPT !.pc = "delay", !.ran = FALSE, !.err = FALSE])
    /\ UNCHANGED <<calls, connects, otherWrites, iface, conf, keyDirs, pskFiles, crashed>>

\* The timer fires: 'ping -c 1 8.8.8.8' is run.
DelayDone(t) ==
    /\ At(t, "delay")
    /\ Set(t, Exec(task[t], "ping", "ping"))
    /\ UNCHANGED <<calls, connects, otherWrites, iface, conf, keyDirs, pskFiles, crashed>>

\* s after connectToWireGuard resolved: connectDvpn logs, starts the curl of the
\* public address without waiting for it, and returns true.
Connected(s) == Return([s EXCEPT !.log = Append(@, "curl")], "true")

\* A callback of the ping that rejects when the ping has failed.
PingDoneRejecting(t) ==
    /\ Called(t, "ping")
    /\ Set(t, IF task[t].err THEN Return(task[t], "false") ELSE Connected(task[t]))
    /\ UNCHANGED <<calls, connects, otherWrites, iface, conf, keyDirs, pskFiles, crashed>>

\* Callback of the ping: its error is logged and the promise resolves true.
PingDone(t) ==
    /\ Called(t, "ping")
    /\ Set(t, Connected(task[t]))
    /\ UNCHANGED <<calls, connects, otherWrites, iface, conf, keyDirs, pskFiles, crashed>>

\* Callback of fs.readFile on the manual path: a read error rejects; otherwise
\* the five fields are extracted (a failed match throws out of the callback) and
\* the temporary wg config is written.
FallbackReadDone(t) ==
    /\ At(t, "fb_read")
    /\ \E failed \in BOOLEAN :
         /\ (~conf.exists => failed)
         /\ IF failed
            THEN Set(t, Return(Failed(task[t]), "false")) /\ UNCHANGED crashed
            ELSE IF ParseThrows(TextOf(conf))
            THEN /\ Set(t, [task[t] EXCEPT !.pc = "thrown"])
                 /\ crashed' = TRUE
            ELSE /\ Set(t, Await([task[t] EXCEPT !.parsed = ParseConfig(TextOf(conf))],
                                 "fb_write", "writeTemp"))
                 /\ UNCHANGED crashed
    /\ UNCHANGED <<calls, connects, otherWrites, iface, conf, keyDirs, pskFiles>>

\* A callback of fs.writeFile that runs the manual commands whatever the error.
FallbackWriteDoneIgnoringError(t) ==
    /\ At(t, "fb_write")
    /\ \E failed \in BOOLEAN :
         Set(t, Exec([(IF failed THEN Failed(task[t]) ELSE task[t])
                        EXCEPT !.tempConf = "present", !.index = 0],
                     "cmd", ManualCommands[1]))
    /\ UNCHANGED <<calls, connects, otherWrites, iface, conf, keyDirs, pskFiles, crashed>>

\* Callback of fs.writeFile of the temporary config: a write error rejects;
\* otherwise execCommands(0) runs the first manual command.
FallbackWriteDone(t) ==
    /\ At(t, "fb_write")
    /\ \E failed \in BOOLEAN :
         Set(t, IF failed THEN Return(Failed(task[t]), "false")
                ELSE Exec([task[t] EXCEPT !.tempConf = "present", !.index = 0],
                          "cmd", ManualCommands[1]))
    /\ UNCHANGED <<calls, connects, otherWrites, iface, conf, keyDirs, pskFiles, crashed>>

\* The address in `sudo ip addr add ${address} dev erebrus-dvpn`.
AddressArgument(s) == s.parsed.address

\* execCommands that goes on to the next command although one has failed.
AfterCommandContinuing(s) ==
    LET next == s.index + 1
    IN  IF next >= Len(ManualCommands)
        THEN Connected([s EXCEPT !.index = next, !.tempConf = "unlinking"])
        ELSE Exec([s EXCEPT !.index = next], "cmd", ManualCommands[next + 1])

\* execCommands that rejects on a failed command without deleting the interface.
AfterCommandNoRollback(s) ==
    LET next == s.index + 1
    IN  IF s.err THEN Return([s EXCEPT !.tempConf = "unlinking"], "false")
        ELSE IF next >= Len(ManualCommands)
        THEN Connected([s EXCEPT !.index = next, !.tempConf = "unlinking"])
        ELSE Exec([s EXCEPT !.index = next], "cmd", ManualCommands[next + 1])

\* What the callback of manual command number index does: on error the
\* interface is deleted; otherwise execCommands(index + 1) runs the next command
\* or, past the last one, unlinks the temporary config and resolves true.
AfterCommand(s) ==
    LET next == s.index + 1
    IN  IF s.err THEN Exec(s, "rb_del", "delete")
        ELSE IF next >= Len(ManualCommands)
        THEN Connected([s EXCEPT !.index = next, !.tempConf = "unlinking"])
        ELSE Exec([s EXCEPT !.index = next], "cmd", ManualCommands[next + 1])

\* Callback of a manual command.
CommandDone(t) ==
    /\ Called(t, "cmd")
    /\ Set(t, AfterCommand(task[t]))
    /\ UNCHANGED <<calls, connects, otherWrites, iface, conf, keyDirs, pskFiles, crashed>>

\* Callback of the delete after a failed manual command: the temporary config
\* is unlinked and the promise rejects, so connectDvpn returns false.
RollbackDeleteDone(t) ==
    /\ Called(t, "rb_del")
    /\ Set(t, Return([task[t] EXCEPT !.tempConf = "unlinking"], "false"))
    /\ UNCHANGED <<calls, connects, otherWrites, iface, conf, keyDirs, pskFiles, crashed>>

\* fs.unlink(tempConf, () => {}) completes some time after it was called.
TempUnlinked(t) ==
    /\ task[t].tempConf = "unlinking"
    /\ task' = [task EXCEPT ![t] = [@ EXCEPT !.tempConf = "none"]]
    /\ UNCHANGED <<calls, connects, otherWrites, iface, conf, keyDirs, pskFiles, crashed>>

(***************************************************************************)
(* disconnectVPN.                                                          *)
(***************************************************************************)
\* disconnectVPN(configPath) is called: 'wg-quick down <configPath>' is run.
CallDisconnect(t) ==
    /\ Start(t, "disconnect", "none", "disc_down", "down")
    /\ UNCHANGED connects

\* Callback of 'wg-quick down': whatever the error, 'ip link delete' is run.
DisconnectDownDone(t) ==
    /\ Called(t, "disc_down")
    /\ Set(t, Exec(task[t], "disc_del", "delete"))
    /\ UNCHANGED <<calls, connects, otherWrites, iface, conf, keyDirs, pskFiles, crashed>>

\* disconnectVPN that reports the error of the delete to its caller.
DisconnectResultFromError(error) == IF error THEN "false" ELSE "true"

\* What disconnectVPN resolves to, given the error of the delete.
DisconnectResult(error) == "true"

\* Callback of the delete: an error is logged as a warning; resolve(true).
DisconnectDeleteDone(t) ==
    /\ Called(t, "disc_del")
    /\ Set(t, Return(task[t], DisconnectResult(task[t].err)))
    /\ UNCHANGED <<calls, connects, otherWrites, iface, conf, keyDirs, pskFiles, crashed>>

(***************************************************************************)
(* Specification.                                                          *)
(***************************************************************************)
\* Another process of the host (a second instance of this client, any writer of
\* /tmp) opens the config path for writing: the file is created, or truncated.
OtherWriterOpens ==
    /\ otherWrites < MaxOtherWrites
    /\ otherWrites' = otherWrites + 1
    /\ conf' = IF conf.exists THEN [conf EXCEPT !.written = FALSE, !.data = NoClient]
               ELSE [NoFile EXCEPT !.exists = TRUE, !.mode = ForeignMode]
    /\ UNCHANGED <<task, calls, connects, iface, keyDirs, pskFiles, crashed>>

\* A step of createClient, or of a subprocess or file operation it started.
StepCreateClient(t) ==
    \/ KpMkdirDone(t)
    \/ KpGenkeyDone(t)
    \/ KpPubkeyDone(t)
    \/ KpReadDone(t)
    \/ KpReadPublicDone(t)
    \/ KpRmDone(t)
    \/ PskGenDone(t)
    \/ PskReadDone(t)
    \/ PskUnlinkDone(t)
    \/ PostDone(t)
    \/ PostTextDone(t)

\* A subprocess of t exits, or a callback or continuation of t is run.
Completes(t) ==
    \/ Subprocess(t)
    \/ WhichDone(t)
    \/ NodesDone(t)
    \/ StepCreateClient(t)
    \/ ConfOpenDone(t)
    \/ ConfWriteDone(t)
    \/ CleanupDownDone(t)
    \/ CleanupDeleteDone(t)
    \/ UpDone(t)
    \/ DnsDone(t)
    \/ DelayDone(t)
    \/ PingDone(t)
    \/ FallbackReadDone(t)
    \/ FallbackWriteDone(t)
    \/ CommandDone(t)
    \/ RollbackDeleteDone(t)
    \/ TempUnlinked(t)
    \/ DisconnectDownDone(t)
    \/ DisconnectDeleteDone(t)

\* A step of the invocation of t that is in flight, or of a subprocess or file
\* operation it started.
Step(t) == Completes(t) \/ SubprocessHangs(t)

\* Callers may call connectDvpn and disconnectVPN at any time, also while other
\* invocations are in flight.
Next ==
    \/ \E t \in Tasks : CallConnect(t) \/ CallDisconnect(t) \/ Step(t)
    \/ OtherWriterOpens

Spec == Init /\ [][Next]_vars

\* The caller of the example program: main() of basic-usage.js.
Main == CHOOSE t \in Tasks : \A u \in Tasks : t <= u

\* A caller that awaits each invocation before it starts the next one.
NextSequential ==
    \/ CallConnect(Main)
    \/ CallDisconnect(Main)
    \/ Step(Main)
    \/ OtherWriterOpens

SpecSequential == Init /\ [][NextSequential]_vars

\* Users of the SDK that call the exported createClient at any time, also
\* while other invocations of it are in flight.
NextCreateClient ==
    \E t \in Tasks :
        \/ CallCreateClient(t)
        \/ Subprocess(t)
        \/ SubprocessHangs(t)
        \/ StepCreateClient(t)

SpecCreateClient == Init /\ [][NextCreateClient]_vars

(***************************************************************************)
(* Properties.                                                             *)
(***************************************************************************)
\* Operation c was started by the invocation whose record is s.
Has(s, c) == \E i \in 1..Len(s.log) : s.log[i] = c
\* How often it was started.
Count(s, c) == Cardinality({i \in 1..Len(s.log) : s.log[i] = c})
\* The last operation the invocation started.
Last(s) == s.log[Len(s.log)]
\* The invocation o of task t has returned v.
Returned(t, o, v) == task[t].pc = "idle" /\ task[t].op = o /\ task[t].ret = v
\* The commands that act on the interface.
InterfaceCommands == {"down", "delete", "up"} \cup {ManualCommands[i] : i \in 1..5}

\* nodeId of the connect of t is the id of an active node of the directory.
TargetsActiveNode(s) ==
    \E n \in s.directory : n.id = s.nodeId /\ n.status = "active"

\* C1: a connect whose nodeId is not the id of an active node of the directory
\* (absent, or listed with another status) returns false and never invokes
\* createClient.
C1_InactiveNodeNeverProvisioned ==
    \A t \in Tasks :
        LET s == task[t]
        IN  (s.op = "connect" /\ s.pc \notin {"which", "nodes"} /\ ~TargetsActiveNode(s))
              => /\ Returned(t, "connect", "false")
                 /\ ~Has(s, "createClient")
                 /\ ~Has(s, "provision")

\* A connect to a node the directory lists as inactive has returned.
C1_Witness ==
    \E t \in Tasks :
        /\ Returned(t, "connect", "false")
        /\ [id |-> task[t].nodeId, status |-> "inactive"] \in task[t].directory
        /\ Last(task[t]) = "getAllNodes"
        /\ task[t].errs = {}

\* C2: every disconnectVPN that completes resolves true, whatever the outcome
\* of its two commands and whatever the interface was, and raises no exception.
C2_DisconnectAlwaysTrue ==
    \A t \in Tasks :
        /\ (task[t].op = "disconnect" /\ task[t].pc = "idle") => task[t].ret = "true"
        /\ task[t].op = "disconnect" => task[t].pc # "thrown"

\* The second of two consecutive disconnects has returned true on a host with
\* no interface, both of its commands having failed.
C2_Witness ==
    \E t \in Tasks :
        /\ Returned(t, "disconnect", "true")
        /\ task[t].id = 2 /\ connects = 0
        /\ task[t].errs = {"down", "delete"}
        /\ task[t].retIface.state = "Down"

\* The index of the last start of c in the log of s (0: never started).
LastIndex(s, c) ==
    IF Has(s, c) THEN CHOOSE i \in 1..Len(s.log) :
                        s.log[i] = c /\ \A k \in (i + 1)..Len(s.log) : s.log[k] # c
    ELSE 0

\* C3: in one bring-up the manual path is entered exactly once when 'wg-quick
\* up' has failed (and never otherwise, and never again); when 'wg setconf'
\* has failed, the interface delete follows it and the default-route command
\* is never run.
C3_FallbackOnceAndRollback ==
    \A t \in Tasks :
        LET s == task[t]
        IN  /\ Count(s, "up") <= 1 /\ Count(s, "readConfig") <= 1
            /\ Count(s, "linkadd") <= 1 /\ Count(s, "setconf") <= 1
            /\ (Has(s, "up") /\ s.pc # "up" /\ "up" \in s.errs)
                 => Count(s, "readConfig") = 1
            /\ Has(s, "readConfig") => "up" \in s.errs
            /\ "setconf" \in s.errs => ~Has(s, "routeadd")
            /\ ("setconf" \in s.errs /\ s.pc # "cmd")
                 => /\ LastIndex(s, "delete") > LastIndex(s, "setconf")
                    /\ ~Has(s, "addradd")

\* A bring-up whose 'wg setconf' failed has rolled back and reported failure.
C3_Witness ==
    \E t \in Tasks :
        /\ Returned(t, "connect", "false")
        /\ {"up", "setconf"} \subseteq task[t].errs
        /\ Last(task[t]) = "delete"

\* C4: once createWireGuardConfig has persisted the configuration, the file has
\* mode 0600, whatever was at the path before and whatever the umask.
C4_PersistedFileIsOwnerOnly ==
    (\E t \in Tasks : Has(task[t], "persisted")) => conf.mode = Mode600

\* The fields that went into the configuration text of client data c.
Synthesized(c) ==
    [privateKey   |-> c.privateKey,
     address      |-> c.payload.Address,
     publicKey    |-> c.payload.serverPublicKey,
     presharedKey |-> c.payload.PresharedKey,
     endpoint     |-> c.payload.endpoint]

\* C5: what the manual-path parser extracts from the configuration text that
\* createWireGuardConfig built is the private key, address, peer public key,
\* preshared key and endpoint the text was built from.
C5_ParseYieldsSynthesizedFields ==
    \A t \in Tasks :
        task[t].parsed # NoFields => task[t].parsed = Synthesized(task[t].client)

InInterfaceSection(t) ==
    task[t].pc \in {"cln_down", "cln_del", "up", "fb_read", "fb_write", "cmd",
                    "rb_del", "disc_down", "disc_del"}

\* C7: the interface sections of two invocations never overlap.
C7_InterfaceSectionsExclusive ==
    \A t, u \in Tasks : (t # u /\ InInterfaceSection(t)) => ~InInterfaceSection(u)

\* C8: no failure inside the bring-up escapes as an exception: the promise of
\* every connect is settled with a boolean.
C8_BringUpNeverThrows ==
    ~crashed /\ \A t \in Tasks : task[t].pc # "thrown"

\* The step of connectDvpn that operation c belongs to: 1 tool check, 2 node
\* retrieval, 4 provisioning (started once validation, step 3, has passed),
\* 5 config synthesis and persistence, 6 bring-up and what follows it.
StepOf(c) ==
    CASE c = "which" -> 1
      [] c = "getAllNodes" -> 2
      [] c \in {"createClient", "mkdir", "genkey", "pubkey", "readKeys", "readPublic",
                "rmKeys", "genpsk", "readPsk", "unlinkPsk", "provision",
                "responseText"} -> 4
      [] c \in {"writeConfig", "persisted"} -> 5
      [] OTHER -> 6

\* The operations of steps 1 to 5 whose failure ends the connect.
EarlyOperations ==
    {"which", "getAllNodes", "mkdir", "genkey", "pubkey", "readKeys", "readPublic",
     "rmKeys", "genpsk", "readPsk", "unlinkPsk", "provision", "responseText", "writeConfig"}

\* The invocation s has started an operation of step k or of a later step.
Reached(s, k) == \E i \in 1..Len(s.log) : StepOf(s.log[i]) >= k

\* C9: the operations of a connect are started in the order of its steps; a
\* step is started only when the earlier ones were; the first failure in steps
\* 1 to 5 is the last operation of the connect, which returns false, so that no
\* config is written and no interface command run after it.
C9_StepsInOrder ==
    \A t \in Tasks :
        LET s == task[t]
        IN  s.op = "connect" =>
              /\ \A i \in 1..(Len(s.log) - 1) : StepOf(s.log[i]) <= StepOf(s.log[i + 1])
              /\ Reached(s, 2) => Has(s, "which")
              /\ Reached(s, 4) => Has(s, "getAllNodes") /\ TargetsActiveNode(s)
              /\ Reached(s, 5) => Has(s, "responseText") /\ ~s.client.isNull
              /\ Reached(s, 6) => Has(s, "persisted")
              /\ \A c \in s.errs \cap EarlyOperations :
                   /\ Last(s) = c
                   /\ ~Has(s, "persisted")
                   /\ \A k \in InterfaceCommands : ~Has(s, k)
                   /\ s.pc = "idle" => s.ret = "false"
              /\ (s.pc = "idle" /\ ~Has(s, "persisted")) => s.ret = "false"

\* A connect has failed at the provisioning response, after the tool check,
\* the directory and the key generation had succeeded.
C9_Witness ==
    \E t \in Tasks :
        /\ Returned(t, "connect", "false")
        /\ Last(task[t]) = "responseText"
        /\ "responseText" \in task[t].errs

\* C10: when disconnectVPN has returned, no device is on the host, whatever
\* the interface was when it was called; it has run 'wg-quick down' and then,
\* whatever that reported, 'ip link delete'.
C10_DisconnectLeavesDown ==
    \A t \in Tasks :
        Returned(t, "disconnect", "true")
          => /\ task[t].retIface.state = "Down"
             /\ task[t].log = <<"down", "delete">>

\* C11: whenever the manual path has issued 'ip addr add', its address argument
\* is the string of the Address field of the configuration file, which is the
\* client address the file was written from, whatever that address is.
C11_AddressPassedUnchanged ==
    \A t \in Tasks :
        Has(task[t], "addradd")
          => AddressArgument(task[t]) = Synthesized(task[t].client).address

\* The invocation of t is in flight and the process lives.
InFlight(t) == task[t].pc # "idle" /\ ~crashed

\* C12: no connect and no disconnect is ever blocked for good: while one is in
\* flight, something of it can happen next (a subprocess exits, a wait runs
\* out, a callback or continuation runs), also when a subprocess of it never
\* exits, so that the invocation goes on to return a result.
C12_NeverBlocked ==
    \A t \in Tasks : InFlight(t) => ENABLED Completes(t)

\* C13: the private key and the preshared key attached to a provisioning result
\* are the ones generated in the attempt that got the result, the public key
\* that attempt sent is the public key of that private key, and no two attempts
\* hold the same key, also when several attempts are in flight.
C13_AttemptUsesItsOwnKeys ==
    \A t \in Tasks :
        ~task[t].client.isNull
          => /\ task[t].client.privateKey = GenPrivateKey(task[t].id)
             /\ task[t].keyPair.publicKey = GenPublicKey(task[t].client.privateKey)
             /\ task[t].client.presharedKey = GenPresharedKey(task[t].id)
             /\ \A u \in Tasks \ {t} :
                  ~task[u].client.isNull
                    => /\ task[u].client.privateKey # task[t].client.privateKey
                       /\ task[u].client.presharedKey # task[t].client.presharedKey

IsManualStep(c) == c \in {"linkadd", "setconf", "addradd", "linkup", "routeadd"}

\* C15: the manual steps an invocation has issued are, in this order, the first
\* ones of: create the device, apply the low-level config, assign the address,
\* set MTU and link up, install the default route; each is issued at most once,
\* a step is issued only when the one before it has completed without error,
\* and a step that failed is the last one issued.
C15_ManualStepsInOrder ==
    \A t \in Tasks :
        LET s == task[t]
            m == SelectSeq(s.log, IsManualStep)
        IN  /\ Len(m) <= 5
            /\ m = SubSeq(<<"linkadd", "setconf", "addradd", "linkup", "routeadd">>,
                          1, Len(m))
            /\ \A i \in 1..(Len(m) - 1) : m[i] \notin s.errs
            /\ (s.pc = "cmd" /\ ~s.ran) => m[Len(m)] \notin s.errs
            /\ (Len(m) > 0 /\ m[Len(m)] \in s.errs) => s.pc \in {"cmd", "rb_del", "idle"}

\* A connect has returned true through the manual fallback, all five steps
\* issued and none failed.
C15_Witness ==
    \E t \in Tasks :
        /\ Returned(t, "connect", "true")
        /\ Has(task[t], "routeadd")
        /\ \A c \in task[t].errs : ~IsManualStep(c)
        /\ Count(task[t], "linkadd") = 1

\* C16: when a connect has returned false because a manual step failed, the
\* delete of the interface was run after the failing step, as the last command
\* of the bring-up, and the temporary wg config is gone.
C16_RollbackBeforeFailure ==
    \A t \in Tasks :
        (Returned(t, "connect", "false") /\ \E c \in task[t].errs : IsManualStep(c))
          => /\ Last(task[t]) = "delete"
             /\ task[t].tempConf = "none"

\* C17: a connect that has returned true has run the DNS correction and then
\* the connectivity probe, after the command that brought the interface up,
\* whichever path brought it up.
C17_DnsThenProbeBeforeSuccess ==
    \A t \in Tasks :
        Returned(t, "connect", "true")
          => /\ Has(task[t], "dns") /\ Has(task[t], "ping")
             /\ LastIndex(task[t], "dns") < LastIndex(task[t], "ping")
             /\ \A c \in InterfaceCommands :
                  LastIndex(task[t], c) < LastIndex(task[t], "dns")

\* The interface came up in the bring-up of s: 'wg-quick up' has reported
\* success, or the last manual command has.
CameUp(s) ==
    \/ Has(s, "up") /\ s.pc # "up" /\ "up" \notin s.errs
    \/ Has(s, "routeadd") /\ s.pc # "cmd" /\ "routeadd" \notin s.errs

\* C18: once the interface came up, the connect does nothing but the DNS
\* correction and the probe and then returns true, whether these fail or not,
\* and the interface stays Up.
C18_ProbeNeverChangesResult ==
    \A t \in Tasks :
        CameUp(task[t])
          => /\ task[t].pc \in {"dns", "delay", "ping", "idle"}
             /\ task[t].pc = "idle" => task[t].ret = "true" /\ task[t].retIface.state = "Up"
             /\ task[t].pc # "idle" => iface.state = "Up"

\* A connect has returned true although both the DNS correction and the probe
\* failed.
C18_Witness ==
    \E t \in Tasks :
        /\ Returned(t, "connect", "true")
        /\ {"dns", "ping"} \subseteq task[t].errs
        /\ task[t].retIface.state = "Up"

\* The operations of generateWireGuardKeyPair and generatePresharedKey.
KeyOperations ==
    {"mkdir", "genkey", "pubkey", "readKeys", "readPublic", "rmKeys",
     "genpsk", "readPsk", "unlinkPsk"}

\* C19: when an operation of the key generation of a connect has failed, the
\* connect does nothing more and returns false: no provisioning request, no
\* config file, no interface command; no operation of the key generation is
\* run twice; and a provisioning request is sent only with the complete key
\* pair and preshared key generated in that connect.
C19_KeyFailureIsFatal ==
    \A t \in Tasks :
        LET s == task[t]
        IN  s.op = "connect" =>
              /\ (s.errs \cap KeyOperations # {})
                   => /\ ~Has(s, "provision")
                      /\ ~Has(s, "writeConfig") /\ ~Has(s, "persisted")
                      /\ \A c \in InterfaceCommands : ~Has(s, c)
                      /\ Last(s) \in s.errs
                      /\ s.pc \in {"idle", "kp_genkey", "kp_pubkey", "psk_gen"}
                      /\ s.pc = "idle" => s.ret = "false"
              /\ \A c \in KeyOperations : Count(s, c) <= 1
              /\ Has(s, "provision")
                   => /\ s.keyPair.privateKey = GenPrivateKey(s.id)
                      /\ s.keyPair.publicKey = GenPublicKey(GenPrivateKey(s.id))
                      /\ s.presharedKey = GenPresharedKey(s.id)

\* A connect has returned false at a failed 'wg genpsk', the key pair generated.
C19_Witness ==
    \E t \in Tasks :
        /\ Returned(t, "connect", "false")
        /\ task[t].errs = {"genpsk"}
        /\ Last(task[t]) = "genpsk"
        /\ task[t].keyPair.privateKey = GenPrivateKey(task[t].id)

\* Positions inside generateWireGuardKeyPair and inside generatePresharedKey.
KeyPairPcs == {"kp_mkdir", "kp_genkey", "kp_pubkey", "kp_read", "kp_read_pub", "kp_rm"}
PresharedKeyPcs == {"psk_gen", "psk_read", "psk_unlink"}

\* C20: once generateWireGuardKeyPair has returned, with a pair or with null,
\* the directory it named does not exist, and once generatePresharedKey has
\* returned, the file it named does not exist.
C20_TemporaryArtifactsRemoved ==
    \A t \in Tasks :
        LET s == task[t]
        IN  /\ (s.tempDir # 0 /\ s.pc \notin KeyPairPcs) => ~keyDirs[s.tempDir].exists
            /\ (s.tempFile # 0 /\ s.pc \notin PresharedKeyPcs)
                 => pskFiles[s.tempFile] = Null

\* The provisioning data c lacks a field the configuration needs: the payload,
\* the client address, the public key of the server, or the endpoint.
LacksRequiredField(c) ==
    \/ ~c.hasPayload
    \/ c.payload.Address = Absent
    \/ c.payload.serverPublicKey = Absent
    \/ c.payload.endpoint = Absent

\* C21: a connect whose provisioning data lacks a required field (client
\* address, server public key or endpoint) writes no configuration file, runs
\* no interface command and returns false.
C21_MissingFieldFailsSynthesis ==
    \A t \in Tasks :
        LET s == task[t]
        IN  (s.op = "connect" /\ ~s.client.isNull /\ LacksRequiredField(s.client))
              => /\ ~Has(s, "writeConfig") /\ ~Has(s, "persisted")
                 /\ \A c \in InterfaceCommands : ~Has(s, c)
                 /\ Returned(t, "connect", "false")

\* C22: two invocations that are inside generateWireGuardKeyPair at the same
\* time use different key directories, and two that are inside
\* generatePresharedKey at the same time use different preshared-key files.
C22_TemporaryPathsUnique ==
    \A t, u \in Tasks :
        t # u =>
          /\ (task[t].pc \in KeyPairPcs /\ task[u].pc \in KeyPairPcs)
               => task[t].tempDir # task[u].tempDir
          /\ (task[t].pc \in PresharedKeyPcs /\ task[u].pc \in PresharedKeyPcs)
               => task[t].tempFile # task[u].tempFile

\* C23: a connect that has returned true has brought the interface up itself:
\* its 'wg-quick up' reported success, or that failed and its five manual steps
\* were all run and all reported success; and, no other invocation being in
\* flight, the interface is Up, created by this connect, when it returns.
C23_TrueOnlyIfBroughtUp ==
    \A t \in Tasks :
        LET s == task[t]
        IN  Returned(t, "connect", "true")
              => /\ Has(s, "up")
                 /\ \/ "up" \notin s.errs
                    \/ /\ \A c \in {"linkadd", "setconf", "addradd", "linkup", "routeadd"} :
                            Has(s, c) /\ c \notin s.errs
                 /\ s.retIface.state = "Up"
                 /\ s.retIface.owner = s.id

\* A connect has returned true on the primary path, over a host on which the
\* cleanup had a device to remove.
C23_Witness ==
    \E t \in Tasks :
        /\ Returned(t, "connect", "true")
        /\ "up" \notin task[t].errs
        /\ "delete" \notin task[t].errs
        /\ Has(task[t], "ping")
        /\ task[t].retIface = [state |-> "Up", owner |-> task[t].id]

\* C24: when the read of the configuration file or the write of the temporary
\* wg config has failed on the manual path, that failure is the last thing the
\* connect did: it has returned false, none of the five manual commands and no
\* delete after the cleanup was issued, and the host has no device, as the
\* cleanup left it.
C24_FallbackIoFailureIssuesNothing ==
    \A t \in Tasks :
        LET s == task[t]
        IN  (s.errs \cap {"readConfig", "writeTemp"} # {})
              => /\ Returned(t, "connect", "false")
                 /\ Last(s) \in {"readConfig", "writeTemp"}
                 /\ \A i \in 1..Len(s.log) : ~IsManualStep(s.log[i])
                 /\ Count(s, "delete") = 1
                 /\ s.retIface = DownIface

\* A bring-up has failed at the write of the temporary wg config, after it had
\* read and parsed the configuration file.
C24_Witness ==
    \E t \in Tasks :
        /\ Returned(t, "connect", "false")
        /\ "writeTemp" \in task[t].errs
        /\ task[t].parsed # NoFields
        /\ task[t].retIface.state = "Down"

====
